---- MODULE Spec2Model ----
(***************************************************************************)
(* One run of the RainCloudPlot4.0.py script (a Streamlit pass): the       *)
(* upload is read, the wide table is melted to (Group, Value) records,     *)
(* each group gets its violin / box / points traces, the export buttons    *)
(* are built, and the descriptive, normality, pairwise and Bayes tables    *)
(* are computed and displayed.                                             *)
(*                                                                         *)
(* Units.  Slider values are held in hundredths (group_spacing 1.0 is      *)
(* 100, violin_box_gap 0.10 is 10).  A uniform draw U of np.random.rand is *)
(* k / UDen with k in 0 .. UDen-1, so x positions of traces are held in    *)
(* units of 1 / (2 * UDen) hundredth, which keeps                          *)
(* point_jitter * (U - 0.5) an integer: point_jitter * (2k - UDen).        *)
(* Arithmetic is exact (the rounding of binary floating point is not       *)
(* modelled).                                                              *)
(***************************************************************************)
EXTENDS Integers, Sequences, FiniteSets, TLC

\* ------------------------------------------------------------------ bounds
MaxCols == 3            \* columns of a table of the statistics family
MaxRows == 3            \* rows of a table of the statistics family
MaxLayoutCols == 2      \* columns of a table of the layout family
MaxLayoutRows == 1      \* rows of a table of the layout family
MaxWideRows == 1        \* rows of a table of the wide family
UDen == 2               \* np.random.rand draws k / UDen, k in 0 .. UDen-1

\* ------------------------------------------------------- program constants
MAX_COLUMNS == 20

Null == "null"          \* a missing cell (polars null, pandas NaN)
Val == "v"              \* a present cell
NoTable == [columns |-> <<>>, cols |-> <<>>, none |-> TRUE]

VARIABLES
  uploaded_file,      \* st.file_uploader's value for this pass
  cfg,                \* the sidebar widgets' values for this pass
  pc,                 \* position of the script
  df,                 \* load_data's result
  df_melted,          \* long-form records, also df_pd
  group_positions,    \* line 293
  fig,                \* the traces added to the figure, in order
  side,               \* script global set only in the violin branch
  i, j,               \* loop indices (1-based)
  export,             \* what the export step did
  descriptive_stats,
  group_names,        \* line 419
  normality_results,
  ttest_results,
  bayes_results,
  shown,              \* what st.* displayed, in order
  errors,             \* st.error calls
  warnings,           \* st.warning calls
  exception           \* the uncaught exception that ended the pass, if any

vars == <<uploaded_file, cfg, pc, df, df_melted, group_positions, fig, side,
          i, j, export, descriptive_stats, group_names, normality_results,
          ttest_results, bayes_results, shown, errors, warnings, exception>>

\* ----------------------------------------------------------------- helpers
Min(a, b) == IF a < b THEN a ELSE b

Range(s) == {s[k] : k \in 1..Len(s)}

\* pandas Series.unique(): the distinct values in order of first appearance
Unique(s) ==
  LET first == SelectSeq([k \in 1..Len(s) |-> k],
                         LAMBDA k : \A l \in 1..(k - 1) : s[l] # s[k])
  IN [q \in 1..Len(first) |-> s[first[q]]]

\* df.columns[:MAX_COLUMNS]
KeptColumns(t) == SubSeq(t.columns, 1, Min(Len(t.columns), MAX_COLUMNS))

\* the number of rows of a table (its columns are equally long)
Height(t) == IF Len(t.cols) = 0 THEN 0 ELSE Len(t.cols[1])

\* df.select(columns).melt(...): one record per cell of each kept column,
\* column after column; a null cell gives a record with a null Value
Melt(t) ==
  LET nr == Height(t)
  IN [k \in 1..(Len(KeptColumns(t)) * nr) |->
        [Group |-> KeptColumns(t)[((k - 1) \div nr) + 1],
         Value |-> t.cols[((k - 1) \div nr) + 1][((k - 1) % nr) + 1]]]

\* mutant: the groups in sorted order, as groupby gives them
Groups_Mutant(m) == SortSeq(Unique([k \in 1..Len(m) |-> m[k].Group]), LAMBDA a, b : a < b)

\* df_pd["Group"].unique()
Groups(m) == Unique([k \in 1..Len(m) |-> m[k].Group])

\* df_pd[df_pd["Group"] == group]["Value"]
GroupValues(m, g) ==
  LET sel == SelectSeq(m, LAMBDA rec : rec.Group = g)
  IN [k \in 1..Len(sel) |-> sel[k].Value]

\* Series.dropna()
DropNa(y) == SelectSeq(y, LAMBDA v : v # Null)

\* ------------------------------------------------------------------ inputs
Table(columns, cols) == [columns |-> columns, cols |-> cols, none |-> FALSE]

\* headers: integers stand for column names, so that the alphabetical order
\* of groupby can differ from the source column order
Asc(n) == [k \in 1..n |-> k]
Desc(n) == [k \in 1..n |-> n + 1 - k]

\* a column of nr cells of which the first k are present
ColumnOf(nr, k) == [r \in 1..nr |-> IF r <= k THEN Val ELSE Null]

\* statistics family: up to MaxCols columns of up to MaxRows rows, each
\* column given by its number of present cells; headers in descending order
StatsTables ==
  UNION {UNION {{Table(Desc(nc), [c \in 1..nc |-> ColumnOf(nr, cnt[c])]) :
                   cnt \in [1..nc -> 0..nr]} :
                nr \in 0..MaxRows} :
         nc \in 1..MaxCols}

\* layout family: small tables, each column given by its number of present
\* cells; headers in ascending order
LayoutTables ==
  UNION {UNION {{Table(Asc(nc), [c \in 1..nc |-> ColumnOf(nr, cnt[c])]) :
                   cnt \in [1..nc -> 0..nr]} :
                nr \in 0..MaxLayoutRows} :
         nc \in 1..MaxLayoutCols}

\* wide family: MAX_COLUMNS or MAX_COLUMNS + 1 columns, of which column 1
\* may be all missing
WideTables ==
  UNION {UNION {{Table(Asc(nc), [c \in 1..nc |-> ColumnOf(nr, IF c = m THEN 0 ELSE nr)]) :
                   m \in (IF nr = 0 THEN {0} ELSE {0, 1})} :
                nr \in 0..MaxWideRows} :
         nc \in {MAX_COLUMNS, MAX_COLUMNS + 1}}

File(ext, reads, t) == [present |-> TRUE, ext |-> ext, reads |-> reads, table |-> t]
NoFile == [present |-> FALSE, ext |-> "", reads |-> FALSE, table |-> NoTable]

\* uploads that give no table: nothing uploaded, an unsupported name, or a
\* supported name whose reader raises
BadFiles ==
  {NoFile, File("txt", TRUE, Table(Asc(1), <<ColumnOf(1, 1)>>))} \cup
  {File(e, FALSE, NoTable) : e \in {"csv", "CSV", "xlsx", "xls"}}

\* the sidebar defaults (lines 111-216)
DefaultCfg ==
  [group_spacing |-> 100, violin_box_gap |-> 0, box_points_gap |-> 20,
   point_jitter |-> 20, violin_on |-> TRUE, violin_direction |-> "Left",
   box_on |-> TRUE, points_on |-> TRUE, test_type |-> "Welch's T-Test"]

TestTypes == {"Welch's T-Test", "Mann-Whitney U Test"}

\* statistics family: the defaults with jitter width 0, under either test
\* (the wide family takes the same with Welch's)
StatsCfgs ==
  {[DefaultCfg EXCEPT !.point_jitter = 0, !.test_type = t] : t \in TestTypes}

\* layout family: the widgets the plot reads; violin_direction exists only
\* when the violin is enabled (lines 160-167) and point_jitter only when the
\* points are (lines 182-184; it is never read otherwise, and held as 0)
LayoutCfgs ==
  {[DefaultCfg EXCEPT !.group_spacing = gs, !.violin_box_gap = gaps[1],
                      !.box_points_gap = gaps[2], !.point_jitter = IF pon THEN pj ELSE 0,
                      !.violin_on = von,
                      !.violin_direction = IF von THEN vd ELSE "undefined",
                      !.box_on = bon, !.points_on = pon] :
     gs \in {50}, gaps \in {<<-10, 20>>, <<10, -20>>}, pj \in {0, 20},
     von \in BOOLEAN, vd \in {"Left", "Right"}, bon \in BOOLEAN, pon \in BOOLEAN}

Init ==
  /\ \/ /\ uploaded_file \in BadFiles
        /\ cfg = DefaultCfg
     \/ /\ uploaded_file = File("CSV", TRUE, Table(Asc(1), <<ColumnOf(1, 1)>>))
        /\ cfg = DefaultCfg
     \/ /\ uploaded_file \in {File("csv", TRUE, t) : t \in StatsTables}
        /\ cfg \in StatsCfgs
     \/ /\ uploaded_file \in {File("xlsx", TRUE, t) : t \in LayoutTables}
        /\ cfg \in LayoutCfgs
     \/ /\ uploaded_file \in {File("xls", TRUE, t) : t \in WideTables}
        /\ cfg = [DefaultCfg EXCEPT !.point_jitter = 0]
  /\ pc = "load"
  /\ df = NoTable
  /\ df_melted = <<>>
  /\ group_positions = <<>>
  /\ fig = <<>>
  /\ side = "undefined"
  /\ i = 0
  /\ j = 0
  /\ export = "none"
  /\ descriptive_stats = <<>>
  /\ group_names = <<>>
  /\ normality_results = <<>>
  /\ ttest_results = <<>>
  /\ bayes_results = <<>>
  /\ shown = <<>>
  /\ errors = <<>>
  /\ warnings = <<>>
  /\ exception = "none"

\* --------------------------------------------------------------- load_data
\* str.lower() on the file name's extension
Lower(ext) == IF ext = "CSV" THEN "csv" ELSE ext

\* mutant: the extension is not checked
LoadResult_Mutant(file) ==
  IF file.present /\ file.reads THEN [table |-> file.table, error |-> "none"]
  ELSE [table |-> NoTable, error |-> IF file.present THEN "Error reading file" ELSE "none"]

\* load_data(file): the table, or None after st.error / when nothing is uploaded
LoadResult(file) ==
  IF ~file.present THEN [table |-> NoTable, error |-> "none"]
  ELSE IF Lower(file.ext) \in {"csv", "xlsx", "xls"}
       THEN IF file.reads THEN [table |-> file.table, error |-> "none"]
            ELSE [table |-> NoTable, error |-> "Error reading file"]
       ELSE [table |-> NoTable, error |-> "Unsupported file type"]

LoadData ==
  /\ pc = "load"
  /\ LET r == LoadResult(uploaded_file)
     IN /\ df' = r.table
        /\ errors' = IF r.error = "none" THEN errors ELSE Append(errors, r.error)
        /\ pc' = IF r.table.none THEN "done" ELSE "reshape"
  /\ UNCHANGED <<uploaded_file, cfg, df_melted, group_positions, fig, side, i, j,
                 export, descriptive_stats, group_names, normality_results, ttest_results,
                 bayes_results, shown, warnings, exception>>

\* ------------------------------------------------------------------ reshape
\* mutant: positions counted from 1
GroupPositions_Mutant(m, spacing) == [k \in 1..Len(Groups(m)) |-> k * spacing]

\* lines 273-293: melt, new figure, the groups' base positions
GroupPositions(m, spacing) == [k \in 1..Len(Groups(m)) |-> (k - 1) * spacing]

Reshape ==
  /\ pc = "reshape"
  /\ df_melted' = Melt(df)
  /\ group_positions' = GroupPositions(Melt(df), cfg.group_spacing)
  /\ fig' = <<>>
  /\ i' = 1
  /\ pc' = "render"
  /\ UNCHANGED <<uploaded_file, cfg, df, side, j, export, descriptive_stats, group_names,
                 normality_results, ttest_results, bayes_results, shown, errors,
                 warnings, exception>>

\* --------------------------------------------------------------- the plot
\* a slider value in position units
X(v) == 2 * UDen * v

\* mutant: the draw is not centred (point_jitter * U)
Jitter_Mutant(pj, k) == pj * 2 * k

\* point_jitter * (U - 0.5) for U = k / UDen, in position units
Jitter(pj, k) == pj * (2 * k - UDen)

\* np.random.rand(n): the draws are independent; they are enumerated over the
\* UDen vectors in which point p draws (k + p - 1) mod UDen, so that every
\* point takes every value of U
Rand(n, k) == [p \in 1..n |-> (k + p - 1) % UDen]

\* line 302
SideOf(violin_direction) == IF violin_direction = "Left" THEN "negative" ELSE "positive"

\* line 333
JitterDirection(sd) == IF sd = "negative" THEN 1 ELSE -1

\* line 307: x of the violin trace
ViolinX(x_base, y) == [p \in 1..Len(y) |-> X(x_base)]

\* mutant: the box offset by the wrong gap
BoxX_Mutant(x_base, y) == [p \in 1..Len(y) |-> X(x_base + cfg.box_points_gap)]

\* line 321: x of the box trace
BoxX(x_base, y) == [p \in 1..Len(y) |-> X(x_base + cfg.violin_box_gap)]

\* lines 334, 339: x of the points trace for the draws u
PointsX(x_base, sd, u) ==
  [p \in 1..Len(u) |->
     X(x_base + cfg.violin_box_gap + cfg.box_points_gap * JitterDirection(sd))
       + Jitter(cfg.point_jitter, u[p])]

Trace(kind, name, x) == [kind |-> kind, name |-> name, x |-> x]

\* lines 295-349: one iteration of the per-group loop.  With the violin
\* disabled `side` is never assigned, and reading it at line 333 raises
\* NameError after the box trace of that group was added.
RenderGroup ==
  /\ pc = "render"
  /\ i <= Len(Groups(df_melted))
  /\ \E k \in 0..(UDen - 1) :
       LET group == Groups(df_melted)[i]
           y == GroupValues(df_melted, group)
           x_base == group_positions[i]
           side1 == IF cfg.violin_on THEN SideOf(cfg.violin_direction) ELSE side
           fig1 == IF cfg.violin_on
                   THEN Append(fig, Trace("violin", group, ViolinX(x_base, y)))
                   ELSE fig
           fig2 == IF cfg.box_on
                   THEN Append(fig1, Trace("box", group, BoxX(x_base, y)))
                   ELSE fig1
           raises == cfg.points_on /\ side1 = "undefined"
       IN /\ side' = side1
          /\ fig' = IF cfg.points_on /\ ~raises
                    THEN Append(fig2, Trace("points", group,
                                            PointsX(x_base, side1, Rand(Len(y), k))))
                    ELSE fig2
          /\ i' = IF raises THEN i ELSE i + 1
          /\ pc' = IF raises THEN "aborted" ELSE pc
          /\ exception' = IF raises THEN "NameError: side" ELSE exception
  /\ UNCHANGED <<uploaded_file, cfg, df, df_melted, group_positions, j, export,
                 descriptive_stats, group_names, normality_results, ttest_results,
                 bayes_results, shown, errors, warnings>>

\* lines 351-356: configure_plot_layout and st.plotly_chart
ShowPlot ==
  /\ pc = "render"
  /\ i > Len(Groups(df_melted))
  /\ shown' = Append(shown, "plot")
  /\ pc' = "export"
  /\ UNCHANGED <<uploaded_file, cfg, df, df_melted, group_positions, fig, side, i,
                 j, export, descriptive_stats, group_names, normality_results, ttest_results,
                 bayes_results, errors, warnings, exception>>

\* lines 358-398: the export buttons; a missing kaleido or a failing
\* fig.to_image is caught and reported by st.warning
ExportOutcomes == {"ok", "ImportError", "Exception"}

ExportWarning(outcome) ==
  IF outcome = "ImportError" THEN <<"Please install kaleido">>
  ELSE IF outcome = "Exception" THEN <<"Error generating image">>
  ELSE <<>>

\* mutant: only the missing import is caught; a failing fig.to_image ends
\* the pass
Export_Mutant ==
  /\ pc = "export"
  /\ \E outcome \in ExportOutcomes :
       /\ export' = outcome
       /\ warnings' = IF outcome = "Exception" THEN warnings
                      ELSE warnings \o ExportWarning(outcome)
       /\ pc' = IF outcome = "Exception" THEN "aborted" ELSE "describe"
       /\ exception' = IF outcome = "Exception" THEN "to_image" ELSE exception
  /\ UNCHANGED <<uploaded_file, cfg, df, df_melted, group_positions, fig, side, i,
                 j, descriptive_stats, group_names, normality_results, ttest_results,
                 bayes_results, shown, errors>>

Export ==
  /\ pc = "export"
  /\ \E outcome \in ExportOutcomes :
       /\ export' = outcome
       /\ warnings' = warnings \o ExportWarning(outcome)
  /\ pc' = "describe"
  /\ UNCHANGED <<uploaded_file, cfg, df, df_melted, group_positions, fig, side, i,
                 j, descriptive_stats, group_names, normality_results, ttest_results,
                 bayes_results, shown, errors, exception>>

\* ------------------------------------------------------------- statistics
\* df_pd[df_pd["Group"] == group]["Value"].dropna()
Data(m, g) == DropNa(GroupValues(m, g))

\* lines 404-416: groupby("Group")["Value"].describe(): one row per group in
\* sorted key order, Count being the number of non-missing values
DescribeRows(m) ==
  LET keys == SortSeq(Groups(m), LAMBDA a, b : a < b)
  IN [k \in 1..Len(keys) |-> [Group |-> keys[k], Count |-> Len(Data(m, keys[k]))]]

Describe ==
  /\ pc = "describe"
  /\ descriptive_stats' = DescribeRows(df_melted)
  /\ group_names' = Groups(df_melted)
  /\ normality_results' = <<>>
  /\ i' = 1
  /\ pc' = "normality"
  /\ UNCHANGED <<uploaded_file, cfg, df, df_melted, group_positions, fig, side, j,
                 export, ttest_results, bayes_results, shown, errors, warnings,
                 exception>>

\* scipy.stats.shapiro on n values: with fewer than 3 values it raises
\* ValueError or returns NaN, depending on the scipy version installed
ShapiroOutcomes(n) == IF n < 3 THEN {"raise", "nan"} ELSE {"ok"}

\* scipy.stats.anderson on n values: the critical values divide by n, so
\* with no value it raises, or gives NaN where the division does not raise
AndersonOutcomes(n) == IF n = 0 THEN {"raise", "nan"} ELSE {"ok"}

\* lines 423-431: one iteration of the normality loop; the calls are not
\* guarded, so an exception of either ends the pass
NormalityStep ==
  /\ pc = "normality"
  /\ i <= Len(group_names)
  /\ LET group == group_names[i]
         n == Len(Data(df_melted, group))
     IN \E so \in ShapiroOutcomes(n), ao \in AndersonOutcomes(n) :
          LET raises == so = "raise" \/ ao = "raise"
          IN /\ normality_results' =
                  IF raises THEN normality_results
                  ELSE Append(normality_results,
                              [Group |-> group, shapiro |-> so, anderson |-> ao])
             /\ i' = IF raises THEN i ELSE i + 1
             /\ pc' = IF raises THEN "aborted" ELSE pc
             /\ exception' = IF ~raises THEN exception
                             ELSE IF so = "raise" THEN "shapiro" ELSE "anderson"
  /\ UNCHANGED <<uploaded_file, cfg, df, df_melted, group_positions, fig, side, j,
                 export, descriptive_stats, group_names, ttest_results, bayes_results, shown,
                 errors, warnings>>

\* lines 432-438: the normality table is built and the pairwise loop starts
\* at the pair (0, 1), here (1, 2)
StartPairwise ==
  /\ pc = "normality"
  /\ i > Len(group_names)
  /\ ttest_results' = <<>>
  /\ bayes_results' = <<>>
  /\ i' = 1
  /\ j' = 2
  /\ pc' = "pairwise"
  /\ UNCHANGED <<uploaded_file, cfg, df, df_melted, group_positions, fig, side,
                 export, descriptive_stats, group_names, normality_results, shown, errors,
                 warnings, exception>>

\* pingouin's ttest, bayesfactor_ttest and mwu: they return, or raise on
\* input they cannot handle
TTestOutcomes == {"ok", "raise"}
BayesOutcomes == {"ok", "raise"}
MwuOutcomes == {"ok", "raise"}

\* mutant: the guard off by one (len > 0)
Compared_Mutant(n1, n2) == n1 > 0 /\ n2 > 0

\* line 445
Compared(n1, n2) == n1 > 1 /\ n2 > 1

\* lines 453-459 and 476-481
TTestRow(g1, g2) == [Group1 |-> g1, Group2 |-> g2, stat |-> "T-stat", effect |-> "Cohen's d"]
MwuRow(g1, g2) == [Group1 |-> g1, Group2 |-> g2, stat |-> "U-stat", effect |-> "none"]

\* lines 465-469
BayesRow(g1, g2) == [Group1 |-> g1, Group2 |-> g2]

\* lines 438-439: the pair after (a, b) in `for i: for j in range(i+1, g)`;
\* an i whose inner range is empty is passed over
NextI(a, b, g) == IF b + 1 <= g THEN a ELSE a + 1
NextJ(a, b, g) == IF b + 1 <= g THEN b + 1 ELSE a + 2

\* lines 440-481: one iteration of the inner loop.  No call is guarded: an
\* exception of the test ends the pass before its row is appended, one of the
\* Bayes factor after the pair's t-test row was appended.
PairwiseStep ==
  /\ pc = "pairwise"
  /\ j <= Len(group_names)
  /\ LET g == Len(group_names)
         g1 == group_names[i]
         g2 == group_names[j]
         n1 == Len(Data(df_melted, g1))
         n2 == Len(Data(df_melted, g2))
         welch == cfg.test_type = "Welch's T-Test"
         run == Compared(n1, n2)
     IN \E to \in (IF run /\ welch THEN TTestOutcomes ELSE {"ok"}),
           bo \in (IF run /\ welch THEN BayesOutcomes ELSE {"ok"}),
           mo \in (IF run /\ ~welch THEN MwuOutcomes ELSE {"ok"}) :
          LET testRaises == run /\ (IF welch THEN to = "raise" ELSE mo = "raise")
              bayesRaises == run /\ welch /\ ~testRaises /\ bo = "raise"
              raises == testRaises \/ bayesRaises
          IN /\ ttest_results' =
                  IF run /\ ~testRaises
                  THEN Append(ttest_results,
                              IF welch THEN TTestRow(g1, g2) ELSE MwuRow(g1, g2))
                  ELSE ttest_results
             /\ bayes_results' =
                  IF run /\ welch /\ ~raises
                  THEN Append(bayes_results, BayesRow(g1, g2))
                  ELSE bayes_results
             /\ i' = IF raises THEN i ELSE NextI(i, j, g)
             /\ j' = IF raises THEN j ELSE NextJ(i, j, g)
             /\ pc' = IF raises THEN "aborted" ELSE pc
             /\ exception' = IF testRaises THEN "test"
                             ELSE IF bayesRaises THEN "bayesfactor" ELSE exception
  /\ UNCHANGED <<uploaded_file, cfg, df, df_melted, group_positions, fig, side,
                 export, descriptive_stats, group_names, normality_results, shown, errors,
                 warnings>>

\* mutant: the Bayes table displayed whatever the test
DisplayedTables_Mutant(test_type) == <<"descriptive", "normality", "pairwise", "bayes">>

\* lines 483-495: the tables are displayed; the Bayes table only for Welch's
DisplayedTables(test_type) ==
  <<"descriptive", "normality", "pairwise">> \o
  (IF test_type = "Welch's T-Test" THEN <<"bayes">> ELSE <<>>)

Display ==
  /\ pc = "pairwise"
  /\ j > Len(group_names)
  /\ shown' = shown \o DisplayedTables(cfg.test_type)
  /\ pc' = "done"
  /\ UNCHANGED <<uploaded_file, cfg, df, df_melted, group_positions, fig, side, i,
                 j, export, descriptive_stats, group_names, normality_results, ttest_results,
                 bayes_results, errors, warnings, exception>>

Next ==
  \/ LoadData
  \/ Reshape
  \/ RenderGroup
  \/ ShowPlot
  \/ Export
  \/ Describe
  \/ NormalityStep
  \/ StartPairwise
  \/ PairwiseStep
  \/ Display

Spec == Init /\ [][Next]_vars

\* ================================================================== claims
\* What the claims speak of, stated from the uploaded table itself.
NRows(t) == IF Len(t.cols) = 0 THEN 0 ELSE Len(t.cols[1])
ColIndex(t, name) == CHOOSE c \in 1..Len(t.columns) : t.columns[c] = name
\* the number of non-missing cells of the column called `name`
Present(t, name) ==
  Cardinality({r \in 1..NRows(t) : t.cols[ColIndex(t, name)][r] # Null})
Choose2(n) == (n * (n - 1)) \div 2
\* the pass reached the display of the tables
TablesShown == pc = "done" /\ ~df.none
PairOf(row) == <<row.Group1, row.Group2>>
PairsOf(rows) == [k \in 1..Len(rows) |-> PairOf(rows[k])]
\* no row pairs a group with itself, and the rows' unordered pairs are as
\* many as the rows
RowsDistinct(rows) ==
  /\ \A k \in 1..Len(rows) : rows[k].Group1 # rows[k].Group2
  /\ Cardinality({<<Min(rows[k].Group1, rows[k].Group2),
                     Min(-rows[k].Group1, -rows[k].Group2)>> : k \in 1..Len(rows)})
       = Len(rows)
AllHaveTwo == \A k \in 1..Len(group_names) : Present(df, group_names[k]) >= 2
SomeHasFewer == \E k \in 1..Len(group_names) : Present(df, group_names[k]) < 2

\* C1 (as stated): the displayed pairwise table has exactly C(g,2) rows when
\* every group has at least 2 non-missing values and strictly fewer than
\* C(g,2) rows when any group has fewer than 2; no unordered pair appears in
\* two rows and no row pairs a group with itself.
C1_Original ==
  /\ RowsDistinct(ttest_results)
  /\ TablesShown =>
       /\ AllHaveTwo => Len(ttest_results) = Choose2(Len(group_names))
       /\ SomeHasFewer => Len(ttest_results) < Choose2(Len(group_names))

\* C1 (amended): as C1_Original, the "strictly fewer" part for tables of at
\* least two groups (with a single group C(1,2) = 0 rows is all there can be).
C1_PairCount ==
  /\ RowsDistinct(ttest_results)
  /\ TablesShown =>
       /\ AllHaveTwo => Len(ttest_results) = Choose2(Len(group_names))
       /\ (SomeHasFewer /\ Len(group_names) >= 2) =>
            Len(ttest_results) < Choose2(Len(group_names))

\* three groups of which one has fewer than 2 values: one row is displayed
C1_Witness ==
  /\ TablesShown
  /\ Len(group_names) = 3
  /\ SomeHasFewer
  /\ Len(ttest_results) = 1

RECURSIVE Flatten(_)
Flatten(ss) == IF ss = <<>> THEN <<>> ELSE Head(ss) \o Flatten(Tail(ss))
\* The pairs (a, b), a < b, of 1..g: for a = 1, 2, ... in turn, the pairs
\* (a, a+1), ..., (a, g).
PairEnumeration(g) == Flatten([a \in 1..g |-> [d \in 1..(g - a) |-> <<a, a + d>>]])
\* the groups in source column order: the kept columns of a table with rows
DisplayOrder(t) == IF NRows(t) = 0 THEN <<>> ELSE KeptColumns(t)
ExpectedPairs(t) ==
  LET names == DisplayOrder(t)
      all == PairEnumeration(Len(names))
      kept == SelectSeq(all, LAMBDA p : Present(t, names[p[1]]) >= 2
                                        /\ Present(t, names[p[2]]) >= 2)
  IN [k \in 1..Len(kept) |-> <<names[kept[k][1]], names[kept[k][2]]>>]

\* C2: the (Group 1, Group 2) rows of the displayed pairwise table are the
\* pairs (g_i, g_j), i < j, of the groups in source column order, restricted
\* to pairs whose groups both have at least 2 values, whatever the test type;
\* the test type decides only the statistic columns of the rows.
C2_PairOrder ==
  TablesShown =>
    /\ PairsOf(ttest_results) = ExpectedPairs(df)
    /\ \A k \in 1..Len(ttest_results) :
         IF cfg.test_type = "Welch's T-Test"
         THEN ttest_results[k].stat = "T-stat" /\ ttest_results[k].effect = "Cohen's d"
         ELSE ttest_results[k].stat = "U-stat" /\ ttest_results[k].effect = "none"

\* Mann-Whitney on three groups, all compared: three rows
C2_Witness ==
  /\ TablesShown
  /\ cfg.test_type = "Mann-Whitney U Test"
  /\ Len(ttest_results) = 3

\* C3: under Welch's the displayed Bayes table has one row per row of the
\* pairwise table, for the same pairs in the same order; under Mann-Whitney
\* no Bayes row is ever computed and no Bayes table is displayed.
C3_BayesRows ==
  /\ cfg.test_type = "Mann-Whitney U Test" =>
       bayes_results = <<>> /\ "bayes" \notin Range(shown)
  /\ (TablesShown /\ cfg.test_type = "Welch's T-Test") =>
       /\ PairsOf(bayes_results) = PairsOf(ttest_results)
       /\ "bayes" \in Range(shown)

\* Welch's on three groups of which two are compared and one is not
C3_Witness ==
  /\ TablesShown
  /\ cfg.test_type = "Welch's T-Test"
  /\ Len(group_names) = 3
  /\ Len(bayes_results) = 1

\* C4 (as stated): a failing normality test (a group with fewer than 3
\* non-missing values) or pairwise test or Bayes factor never ends the pass,
\* and the row of a group too small for the normality test is omitted.
StatsExceptions == {"shapiro", "anderson", "test", "bayesfactor"}
C4_Original ==
  /\ exception \notin StatsExceptions
  /\ \A k \in 1..Len(normality_results) : Present(df, normality_results[k].Group) >= 3

\* the figure's traces of one kind
TracesOf(kind) == SelectSeq(fig, LAMBDA tr : tr.kind = kind)
NamesOf(traces) == [q \in 1..Len(traces) |-> traces[q].name]
\* lines 273-293 have run
Reshaped == pc \notin {"load", "reshape"} /\ ~df.none
\* the per-group loop has run to its end
Rendered == Reshaped /\ "plot" \in Range(shown)
\* every trace of `kind` of the k-th group has all its x at pos(k)
TracesAt(kind, names, pos(_)) ==
  \A q \in 1..Len(fig) :
    fig[q].kind = kind =>
      \E k \in 1..Len(names) :
        /\ fig[q].name = names[k]
        /\ \A p \in 1..Len(fig[q].x) : fig[q].x[p] = pos(k)
AnchorsOf(names) ==
  /\ Len(group_positions) = Len(names)
  /\ \A k \in 1..Len(names) : group_positions[k] = (k - 1) * cfg.group_spacing
  /\ TracesAt("violin", names, LAMBDA k : X((k - 1) * cfg.group_spacing))
  /\ (Rendered /\ cfg.violin_on) => NamesOf(TracesOf("violin")) = names

\* C5 (as stated): a table whose kept columns number g gets exactly g anchor
\* sets, in source column order, the i-th violin anchor being i * group_spacing
\* (i from 0), whatever the columns hold, tables with zero rows included.
C5_Original == Reshaped => AnchorsOf(KeptColumns(df))

\* C5 (amended): so for every table with at least one row; a table with zero
\* rows has no groups and gets zero anchor sets.
C5_Anchors == Reshaped => AnchorsOf(DisplayOrder(df))

\* 21 columns, the first all missing: 20 anchor sets, 20 violins
C5_Witness ==
  /\ Rendered
  /\ Len(df.columns) > MAX_COLUMNS
  /\ Present(df, df.columns[1]) = 0
  /\ Len(group_positions) = MAX_COLUMNS
  /\ Len(TracesOf("violin")) = MAX_COLUMNS

\* C6: for every group, the x of its box trace minus the x of its violin
\* trace is violin_box_gap at every point, whatever violin_side,
\* box_points_gap and point_jitter_width are; the violin sits at the group's
\* base position.
C6_BoxGap ==
  Reshaped =>
    /\ TracesAt("box", DisplayOrder(df),
                LAMBDA k : X(group_positions[k]) + X(cfg.violin_box_gap))
    /\ \A q2 \in 1..Len(fig) :
         fig[q2].kind = "box" =>
           \A q1 \in 1..Len(fig) :
             (fig[q1].kind = "violin" /\ fig[q1].name = fig[q2].name) =>
               /\ Len(fig[q1].x) = Len(fig[q2].x)
               /\ \A p \in 1..Len(fig[q1].x) :
                    fig[q2].x[p] - fig[q1].x[p] = X(cfg.violin_box_gap)

\* a second group with its violin (to the right) and its box, the gap negative
C6_Witness ==
  /\ cfg.violin_direction = "Right"
  /\ cfg.violin_box_gap < 0
  /\ cfg.point_jitter > 0
  /\ \E q1, q2 \in 1..Len(fig) :
       /\ fig[q1].kind = "violin" /\ fig[q2].kind = "box"
       /\ fig[q1].name = fig[q2].name
       /\ fig[q1].x # <<>>
       /\ fig[q1].x[1] > 0

\* direction of the points as the claim gives it, from the violin side
ClaimedDirection == IF cfg.violin_direction = "Left" THEN 1 ELSE -1
\* boxAnchor + direction * box_points_gap of the k-th group, in position units
PointsCentre(k) ==
  X((k - 1) * cfg.group_spacing + cfg.violin_box_gap
      + ClaimedDirection * cfg.box_points_gap)
\* every point anchor of every group satisfies within(offset from the centre)
PointsWithin(within(_)) ==
  \A q \in 1..Len(fig) :
    fig[q].kind = "points" =>
      \E k \in 1..Len(DisplayOrder(df)) :
        /\ fig[q].name = DisplayOrder(df)[k]
        /\ \A p \in 1..Len(fig[q].x) :
             /\ \E u \in 0..(UDen - 1) :
                  fig[q].x[p] = PointsCentre(k) + cfg.point_jitter * (2 * u - UDen)
             /\ within(fig[q].x[p] - PointsCentre(k))
\* point_jitter_width / 2 in position units
HalfWidth == UDen * cfg.point_jitter

\* C7 (as stated): every point anchor is boxAnchor + direction *
\* box_points_gap + point_jitter_width * (U - 0.5), U in [0,1), direction +1
\* for a Left violin and -1 for a Right one; so its offset from boxAnchor +
\* direction * box_points_gap lies in [-width/2, +width/2).
C7_Original == Reshaped => PointsWithin(LAMBDA d : -HalfWidth <= d /\ d < HalfWidth)

\* C7 (amended): the offset lies in [-width/2, +width/2) when the width is
\* positive and is 0 when the width is 0 (the half-open interval is then
\* empty).
C7_PointAnchors ==
  Reshaped =>
    PointsWithin(LAMBDA d : IF cfg.point_jitter > 0
                            THEN -HalfWidth <= d /\ d < HalfWidth
                            ELSE d = 0)

\* a Right violin, a positive width, and a point of the second group drawn
\* with U = 0: the offset is -width/2
C7_Witness ==
  /\ cfg.violin_direction = "Right"
  /\ cfg.point_jitter > 0
  /\ \E q \in 1..Len(fig) :
       /\ fig[q].kind = "points"
       /\ Len(DisplayOrder(df)) >= 2
       /\ fig[q].name = DisplayOrder(df)[2]
       /\ \E p \in 1..Len(fig[q].x) : fig[q].x[p] - PointsCentre(2) = -HalfWidth

\* the present cells of the kept columns, column after column
PresentCells(t) ==
  {c \in (1..Len(KeptColumns(t))) \X (1..NRows(t)) : t.cols[c[1]][c[2]] # Null}

\* C8 (as stated): reshape keeps the first min(column_count, 20) columns and
\* emits one record per present cell of those, in source column order, and
\* none for a missing cell: the records number the non-missing cells.
C8_Original ==
  Reshaped =>
    /\ Len(df_melted) = Cardinality(PresentCells(df))
    /\ \A k \in 1..Len(df_melted) : df_melted[k].Value # Null
    /\ Groups(df_melted) = SelectSeq(KeptColumns(df), LAMBDA n : Present(df, n) > 0)

\* C9 (as stated): the point anchors of a group number its non-missing
\* values; a group with no observation has an empty point-anchor sequence.
C9_Original ==
  \A q \in 1..Len(fig) :
    fig[q].kind = "points" => Len(fig[q].x) = Present(df, fig[q].name)

\* the upload as load_data treats it
Supported(file) == file.ext \in {"csv", "CSV", "xlsx", "xls"}
Readable(file) == file.present /\ Supported(file) /\ file.reads
\* nothing after load_data has run
NothingRan ==
  /\ pc \in {"load", "done"}
  /\ df_melted = <<>> /\ group_positions = <<>> /\ fig = <<>>
  /\ export = "none" /\ shown = <<>>
  /\ descriptive_stats = <<>> /\ normality_results = <<>>
  /\ ttest_results = <<>> /\ bayes_results = <<>>

\* C10: an upload that cannot be read (unsupported extension, or the reader
\* raises) gets one st.error and no table, and none of reshape, plot, export
\* or statistics runs in that pass; those run only when load_data returned
\* the upload's table.
C10_NoTableNoPass ==
  /\ (pc # "load" /\ uploaded_file.present /\ ~Readable(uploaded_file)) =>
       /\ df.none
       /\ errors = <<IF Supported(uploaded_file) THEN "Error reading file"
                     ELSE "Unsupported file type">>
  /\ df.none => NothingRan
  /\ ~NothingRan => (Readable(uploaded_file) /\ df = uploaded_file.table /\ errors = <<>>)
  /\ (pc # "load" /\ Readable(uploaded_file)) => df = uploaded_file.table

\* a .txt upload: the error is shown and the pass is over with nothing run
C10_Witness ==
  /\ pc = "done"
  /\ uploaded_file.ext = "txt"
  /\ errors = <<"Unsupported file type">>
  /\ NothingRan


\* the export step failed: kaleido is missing or the image generation raised
ExportFailed == export \in {"ImportError", "Exception"}
\* the tables of a table t under a test type, from t alone: the descriptive
\* rows in sorted key order, the normality rows and the pairs in source
\* column order
ExpectedDescriptive(t) ==
  LET keys == SortSeq(DisplayOrder(t), LAMBDA a, b : a < b)
  IN [k \in 1..Len(keys) |-> [Group |-> keys[k], Count |-> Present(t, keys[k])]]
ExpectedNormality(t) ==
  LET names == DisplayOrder(t)
  IN [k \in 1..Len(names) |->
        [Group |-> names[k],
         shapiro |-> IF Present(t, names[k]) < 3 THEN "nan" ELSE "ok",
         anderson |-> IF Present(t, names[k]) = 0 THEN "nan" ELSE "ok"]]
ExpectedShown(test_type) ==
  IF test_type = "Welch's T-Test"
  THEN <<"plot", "descriptive", "normality", "pairwise", "bayes">>
  ELSE <<"plot", "descriptive", "normality", "pairwise">>
\* what the export step leaves behind in every later state of the pass
AfterExport ==
  /\ export = "ok" => warnings = <<>>
  /\ export = "ImportError" => warnings = <<"Please install kaleido">>
  /\ export = "Exception" => warnings = <<"Error generating image">>
  /\ export # "none" =>
       /\ pc \in {"describe", "normality", "pairwise", "done", "aborted"}
       /\ pc = "aborted" => exception \in StatsExceptions
       /\ pc # "aborted" => exception = "none"
       /\ "plot" \in Range(shown)
  /\ (export # "none" /\ pc \in {"normality", "pairwise", "done"}) =>
       descriptive_stats = ExpectedDescriptive(df)
  /\ (export # "none" /\ pc \in {"pairwise", "done"}) =>
       normality_results = ExpectedNormality(df)
  /\ (export # "none" /\ pc = "done") =>
       /\ PairsOf(ttest_results) = ExpectedPairs(df)
       /\ PairsOf(bayes_results) =
            (IF cfg.test_type = "Welch's T-Test" THEN ExpectedPairs(df) ELSE <<>>)
       /\ shown = ExpectedShown(cfg.test_type)
\* the export step, and every step after it, leaves the figure alone
PlotKept == (pc = "export" \/ export # "none") => fig' = fig

\* C11: when the export capability is missing or the image generation fails,
\* one warning is shown and the pass goes on: the export step itself never
\* ends the pass, and the descriptive, normality, pairwise and (Welch's)
\* Bayes tables computed and displayed after it are those determined by the
\* table and the test type alone, hence the same as after a successful
\* export; the figure rendered before the export step is not changed by it
\* or by any later step.
C11_ExportFailure == []AfterExport /\ [][PlotKept]_vars

\* a pass whose export failed on a missing import and which went on to
\* display the four tables of Welch's test, one pair compared in each
C11_Witness ==
  /\ TablesShown
  /\ export = "ImportError"
  /\ warnings = <<"Please install kaleido">>
  /\ cfg.test_type = "Welch's T-Test"
  /\ Len(descriptive_stats) >= 2
  /\ Len(ttest_results) >= 1
  /\ Len(bayes_results) >= 1
  /\ "bayes" \in Range(shown)


\* C12 (as stated): for every combination of violin_on, box_on and points_on
\* and every table with at least one group, the render loop completes for
\* every group: no pass ends on the use of `side`, a name bound only in the
\* violin branch, and with points enabled every group has its points trace,
\* also when the violin is disabled.
C12_Original ==
  /\ exception # "NameError: side"
  /\ (Reshaped /\ cfg.points_on /\ pc # "render") =>
       NamesOf(TracesOf("points")) = DisplayOrder(df)

====
